---- MODULE Spec2Model ----
(***************************************************************************)
(* Dragon-boat seating (src/DragonBoat.py): the roster and the stored      *)
(* assignment of one session, the "Assign Seating" handler with its side   *)
(* partitioner, its role-aware seat packer and its balance analyzer, and   *)
(* the CSV import and export that feed and save the roster, and the sort   *)
(* selection of the roster table.                                          *)
(*                                                                         *)
(* Weights are whole kilograms.  A Python list of paddler dicts is a       *)
(* sequence of references: the lists the handler builds (bow_members,      *)
(* stroke_members, others, bow, stroke) are sequences of indices into the  *)
(* roster they were taken from, so that two equal records stay two         *)
(* paddlers.                                                               *)
(***************************************************************************)
EXTENDS Integers, Sequences, FiniteSets, TLC

VARIABLES members, assignment, last_uploaded_file, sort_choice, view, downloaded

vars == <<members, assignment, last_uploaded_file, sort_choice, view, downloaded>>

-----------------------------------------------------------------------------
(* Bounds of the model *)

\* Add Member is explored while the roster is shorter than this.
MaxAdd == 2
\* No operation grows the roster beyond this many records.
MaxRoster == 12
\* The distribution pass is explored on rosters of up to this many paddlers.
MaxDist == 4
\* The seat packer is explored on sides of up to this many paddlers.
MaxSide == 12

-----------------------------------------------------------------------------
(* Values *)

\* str.lower() on the strings the model uses
Lower(s) ==
    CASE s = "Bow" -> "bow"
      [] s = "BOW" -> "bow"
      [] s = "Stroke" -> "stroke"
      [] s = "Pacer" -> "pacer"
      [] s = "Engine" -> "engine"
      [] s = "Rocket" -> "rocket"
      [] s = "Name" -> "name"
      [] s = "Weight" -> "weight"
      [] s = "Level" -> "level"
      [] s = "Position" -> "position"
      [] s = "Classification" -> "classification"
      [] s = "Role" -> "role"
      [] OTHER -> s

Paddler(n, w, l, p, c, r) ==
    [name |-> n, weight |-> w, level |-> l, position |-> p,
     classification |-> c, role |-> r]

\* float(m.get('weight') or 0)
WeightOf(m) == IF m.weight = 0 THEN 0 ELSE m.weight

Range(s) == {s[i] : i \in DOMAIN s}

RECURSIVE InsertDesc(_, _, _)
\* x placed behind every element that is at least as heavy
InsertDesc(x, sorted, R) ==
    IF sorted = <<>> THEN <<x>>
    ELSE IF WeightOf(R[Head(sorted)]) >= WeightOf(R[x])
         THEN <<Head(sorted)>> \o InsertDesc(x, Tail(sorted), R)
         ELSE <<x>> \o sorted

RECURSIVE SortedHeaviestFirst(_, _)
\* sorted(lst, key=weight, reverse=True): stable, equal weights keep their order
SortedHeaviestFirst(idxs, R) ==
    IF idxs = <<>> THEN <<>>
    ELSE InsertDesc(idxs[Len(idxs)],
                    SortedHeaviestFirst(SubSeq(idxs, 1, Len(idxs) - 1), R), R)

RECURSIVE total_w(_, _)
total_w(lst, R) ==
    IF lst = <<>> THEN 0 ELSE WeightOf(R[Head(lst)]) + total_w(Tail(lst), R)

-----------------------------------------------------------------------------
(* Side partitioner *)

IsBowPref(m) == Lower(m.position) = "bow"
IsStrokePref(m) == Lower(m.position) = "stroke"
\* a comparison that forgets .lower()
IsNoPrefCaseSensitive(m) == m.position \notin {"Bow", "Stroke"}
IsNoPref(m) == Lower(m.position) \notin {"bow", "stroke"}

\* the comparison turned round: the heavier side gets the paddler
PlaceOneHeavierSide(bow_list, stroke_list, o, R) ==
    IF total_w(bow_list, R) > total_w(stroke_list, R)
    THEN [bow |-> Append(bow_list, o), stroke |-> stroke_list]
    ELSE [bow |-> bow_list, stroke |-> Append(stroke_list, o)]

\* one iteration of the loop of distribute_others_by_weight
PlaceOne(bow_list, stroke_list, o, R) ==
    IF total_w(bow_list, R) <= total_w(stroke_list, R)
    THEN [bow |-> Append(bow_list, o), stroke |-> stroke_list]
    ELSE [bow |-> bow_list, stroke |-> Append(stroke_list, o)]

RECURSIVE PlaceAll(_, _, _, _)
PlaceAll(bow_list, stroke_list, queue, R) ==
    IF queue = <<>> THEN [bow |-> bow_list, stroke |-> stroke_list]
    ELSE LET nxt == PlaceOne(bow_list, stroke_list, Head(queue), R)
         IN  PlaceAll(nxt.bow, nxt.stroke, Tail(queue), R)

distribute_others_by_weight(bow_list, stroke_list, others, R) ==
    PlaceAll(bow_list, stroke_list, SortedHeaviestFirst(others, R), R)

-----------------------------------------------------------------------------
(* Role-aware seat packer *)

Seats == 10

IsPacer(m) == Lower(m.role) = "pacer"
IsRocket(m) == Lower(m.role) = "rocket"
IsEngine(m) == Lower(m.role) \notin {"pacer", "rocket"}

\* the back filled 9 then 10
SlotOrderBackAscending == <<1, 2, 9, 10, 3, 4, 5, 6, 7, 8>>

\* the order in which build_side_with_roles fills its slots (1-based)
SlotOrder == <<1, 2, 10, 9, 3, 4, 5, 6, 7, 8>>

\* every slot filled with the priorities of the middle seats
PriorityMiddleEverywhere(slot) == <<"engines", "pacers", "rockets">>

\* the buckets a slot pulls from, in order
Priority(slot) ==
    IF slot <= 2 THEN <<"pacers", "engines", "rockets">>
    ELSE IF slot >= 9 THEN <<"rockets", "engines", "pacers">>
    ELSE <<"engines", "pacers", "rockets">>

\* g[0] in place of g.pop(0): the group keeps its head
pop_heaviest_peek(groups, b) ==
    LET first == IF b[groups[1]] # <<>> THEN groups[1]
                 ELSE IF b[groups[2]] # <<>> THEN groups[2]
                 ELSE IF b[groups[3]] # <<>> THEN groups[3]
                 ELSE "none"
    IN  IF first = "none" THEN [item |-> 0, buckets |-> b]
        ELSE [item |-> Head(b[first]), buckets |-> b]

\* pop_heaviest: the head of the first non-empty group, removed from it
pop_heaviest(groups, b) ==
    LET first == IF b[groups[1]] # <<>> THEN groups[1]
                 ELSE IF b[groups[2]] # <<>> THEN groups[2]
                 ELSE IF b[groups[3]] # <<>> THEN groups[3]
                 ELSE "none"
    IN  IF first = "none" THEN [item |-> 0, buckets |-> b]
        ELSE [item |-> Head(b[first]),
              buckets |-> [b EXCEPT ![first] = Tail(b[first])]]

RECURSIVE FillSlots(_, _, _)
FillSlots(k, b, seats) ==
    IF k > Len(SlotOrder) THEN seats
    ELSE LET slot == SlotOrder[k]
             got == pop_heaviest(Priority(slot), b)
         IN  FillSlots(k + 1, got.buckets, [seats EXCEPT ![slot] = got.item])

RECURSIVE Compact(_)
\* [s for s in seats if s is not None]
Compact(seats) ==
    IF seats = <<>> THEN <<>>
    ELSE IF Head(seats) = 0 THEN Compact(Tail(seats))
         ELSE <<Head(seats)>> \o Compact(Tail(seats))

build_side_with_roles(side, R) ==
    LET buckets == [pacers  |-> SortedHeaviestFirst(SelectSeq(side, LAMBDA i : IsPacer(R[i])), R),
                    rockets |-> SortedHeaviestFirst(SelectSeq(side, LAMBDA i : IsRocket(R[i])), R),
                    engines |-> SortedHeaviestFirst(SelectSeq(side, LAMBDA i : IsEngine(R[i])), R)]
    IN  Compact(FillSlots(1, buckets, [i \in 1..Seats |-> 0]))

-----------------------------------------------------------------------------
(* Assignment rows *)

SeatRow(seat, side, m) ==
    [Seat |-> seat, Side |-> side, Name |-> m.name, Weight |-> m.weight,
     Level |-> m.level, Classification |-> m.classification, Role |-> m.role]

Max2(a, b) == IF a >= b THEN a ELSE b
Min2(a, b) == IF a <= b THEN a ELSE b
Abs(x) == IF x < 0 THEN 0 - x ELSE x

RECURSIVE RowsFrom(_, _, _, _, _)
\* the loop "for row in range(max_rows)": the Bow row, then the Stroke row
RowsFrom(row, max_rows, bow, stroke, R) ==
    IF row > max_rows THEN <<>>
    ELSE (IF row <= Len(bow) THEN <<SeatRow(row, "Bow", R[bow[row]])>> ELSE <<>>)
         \o (IF row <= Len(stroke) THEN <<SeatRow(row, "Stroke", R[stroke[row]])>> ELSE <<>>)
         \o RowsFrom(row + 1, max_rows, bow, stroke, R)

\* "Seat": row in place of "Seat": row + 1
build_assign_rows_zero_based(bow, stroke, R) ==
    LET rows == RowsFrom(1, Min2(Seats, Max2(Len(bow), Len(stroke))), bow, stroke, R)
    IN  [k \in DOMAIN rows |-> [rows[k] EXCEPT !.Seat = @ - 1]]

build_assign_rows(bow, stroke, R) ==
    RowsFrom(1, Min2(Seats, Max2(Len(bow), Len(stroke))), bow, stroke, R)

-----------------------------------------------------------------------------
(* Balance analyzer *)

\* seats 1..FrontSeats count as front
FrontSeats == 5
\* a delta above this many kg raises a suggestion
Threshold == 5

\* float(r.get('Weight') or 0)
RowWeight(r) == IF r.Weight = 0 THEN 0 ELSE r.Weight

RECURSIVE SumWeights(_)
SumWeights(rows) ==
    IF rows = <<>> THEN 0 ELSE RowWeight(Head(rows)) + SumWeights(Tail(rows))

IsBowRow(r) == Lower(r.Side) = "bow"
IsStrokeRow(r) == Lower(r.Side) = "stroke"
\* seat 5 left out of the front
IsFrontRowBelow(r) == r.Seat # 0 /\ r.Seat < FrontSeats
IsFrontRow(r) == r.Seat # 0 /\ r.Seat <= FrontSeats
IsBackRow(r) == r.Seat # 0 /\ r.Seat > FrontSeats

\* the empty dict returned for an empty assignment
NoMetrics == [empty |-> TRUE]

\* right - left in place of left - right
compute_balance_metrics_right_minus_left(assign_rows) ==
    IF assign_rows = <<>> THEN NoMetrics
    ELSE LET left  == SumWeights(SelectSeq(assign_rows, IsBowRow))
             right == SumWeights(SelectSeq(assign_rows, IsStrokeRow))
             front == SumWeights(SelectSeq(assign_rows, IsFrontRow))
             back  == SumWeights(SelectSeq(assign_rows, IsBackRow))
         IN  [left |-> left, right |-> right, front |-> front, back |-> back,
              total |-> left + right, diff_lr |-> right - left,
              diff_fb |-> front - back]

compute_balance_metrics(assign_rows) ==
    IF assign_rows = <<>> THEN NoMetrics
    ELSE LET left  == SumWeights(SelectSeq(assign_rows, IsBowRow))
             right == SumWeights(SelectSeq(assign_rows, IsStrokeRow))
             front == SumWeights(SelectSeq(assign_rows, IsFrontRow))
             back  == SumWeights(SelectSeq(assign_rows, IsBackRow))
         IN  [left |-> left, right |-> right, front |-> front, back |-> back,
              total |-> left + right, diff_lr |-> left - right,
              diff_fb |-> front - back]

RECURSIVE FirstMax(_)
\* max(rows, key=weight): the first of the heaviest rows
FirstMax(rows) ==
    IF Len(rows) = 1 THEN rows[1]
    ELSE LET best == FirstMax(SubSeq(rows, 1, Len(rows) - 1))
             last == rows[Len(rows)]
         IN  IF RowWeight(last) > RowWeight(best) THEN last ELSE best

RECURSIVE FirstMin(_)
\* min(rows, key=weight): the first of the lightest rows
FirstMin(rows) ==
    IF Len(rows) = 1 THEN rows[1]
    ELSE LET best == FirstMin(SubSeq(rows, 1, Len(rows) - 1))
             last == rows[Len(rows)]
         IN  IF RowWeight(last) < RowWeight(best) THEN last ELSE best

SwapSuggestion(heavy_label, light_label, heavy_p, light_p) ==
    [kind |-> "swap", heavy_label |-> heavy_label, light_label |-> light_label,
     heavy_p |-> heavy_p, light_p |-> light_p]
FrontHeavier == [kind |-> "front_heavier"]
BackHeavier == [kind |-> "back_heavier"]
AlreadyBalanced == [kind |-> "balanced"]

\* the sign of diff_lr read the wrong way round
SwapRuleSidesMixed(assign_rows, diff_lr) ==
    LET bow_assign == SelectSeq(assign_rows, IsBowRow)
        stroke_assign == SelectSeq(assign_rows, IsStrokeRow)
    IN  IF Abs(diff_lr) > Threshold /\ bow_assign # <<>> /\ stroke_assign # <<>>
        THEN IF diff_lr < 0
             THEN <<SwapSuggestion("Bow", "Stroke", FirstMax(bow_assign), FirstMin(stroke_assign))>>
             ELSE <<SwapSuggestion("Stroke", "Bow", FirstMax(stroke_assign), FirstMin(bow_assign))>>
        ELSE <<>>

\* the L/R rule
SwapRule(assign_rows, diff_lr) ==
    LET bow_assign == SelectSeq(assign_rows, IsBowRow)
        stroke_assign == SelectSeq(assign_rows, IsStrokeRow)
    IN  IF Abs(diff_lr) > Threshold /\ bow_assign # <<>> /\ stroke_assign # <<>>
        THEN IF diff_lr > 0
             THEN <<SwapSuggestion("Bow", "Stroke", FirstMax(bow_assign), FirstMin(stroke_assign))>>
             ELSE <<SwapSuggestion("Stroke", "Bow", FirstMax(stroke_assign), FirstMin(bow_assign))>>
        ELSE <<>>

\* the two texts exchanged
FrontBackRuleTextsExchanged(diff_fb) ==
    IF Abs(diff_fb) > Threshold
    THEN IF diff_fb > 0 THEN <<BackHeavier>> ELSE <<FrontHeavier>>
    ELSE <<>>

\* the front/back rule
FrontBackRule(diff_fb) ==
    IF Abs(diff_fb) > Threshold
    THEN IF diff_fb > 0 THEN <<FrontHeavier>> ELSE <<BackHeavier>>
    ELSE <<>>

\* the fallback message
Fallback(suggestions) ==
    IF suggestions = <<>> THEN <<AlreadyBalanced>> ELSE suggestions

Suggestions(assign_rows, metrics) ==
    Fallback(SwapRule(assign_rows, metrics.diff_lr) \o FrontBackRule(metrics.diff_fb))

-----------------------------------------------------------------------------
(* CSV import *)

\* what pandas.read_csv holds for a cell it reads as missing
NaN == "<NaN>"

\* the cell texts read_csv takes for a missing value
IsNA(text) == text \in {"", "NA", "NaN", "nan", "null", "N/A"}

\* str(value)
Str(v) == IF v = NaN THEN "nan" ELSE v

\* str.strip() on the strings the model uses
Strip(s) ==
    CASE s = "  " -> ""
      [] s = " Bow" -> "Bow"
      [] s = "Stroke " -> "Stroke"
      [] OTHER -> s

NumberTexts ==
    {"0", "10", "60", "65", "70", "75", "80", "85", "90", "-5",
     "0.0", "10.0", "60.0", "65.0", "70.0", "75.0", "80.0", "85.0", "90.0", "-5.0"}

\* float(text) for the texts that are numbers
NumberOf(text) ==
    CASE text = "0" -> 0
      [] text = "10" -> 10
      [] text = "60" -> 60
      [] text = "65" -> 65
      [] text = "70" -> 70
      [] text = "75" -> 75
      [] text = "80" -> 80
      [] text = "85" -> 85
      [] text = "90" -> 90
      [] text = "-5" -> 0 - 5
      [] text = "0.0" -> 0
      [] text = "10.0" -> 10
      [] text = "60.0" -> 60
      [] text = "65.0" -> 65
      [] text = "70.0" -> 70
      [] text = "75.0" -> 75
      [] text = "80.0" -> 80
      [] text = "85.0" -> 85
      [] text = "90.0" -> 90
      [] text = "-5.0" -> 0 - 5

\* float(w) if w != '' and not pd.isna(w) else 0.0; 0.0 when float() raises
ParseWeight(w) ==
    IF w = "" \/ w = NaN THEN 0
    ELSE IF w \in NumberTexts THEN NumberOf(w) ELSE 0

\* mapping: the column whose lower-cased name is key (the last such), 0 if none
ColumnOf(header, key) ==
    LET hits == {j \in DOMAIN header : Lower(header[j]) = key}
    IN  IF hits = {} THEN 0 ELSE CHOOSE j \in hits : \A k \in hits : k <= j

\* r.get(mapping.get(key, ''), ''): the cell as read_csv holds it, '' without the column
CellOf(header, line, key) ==
    LET j == ColumnOf(header, key)
    IN  IF j = 0 THEN ""
        ELSE IF IsNA(line[j]) THEN NaN ELSE line[j]

EntryOf(header, line) ==
    Paddler(Strip(Str(CellOf(header, line, "name"))),
            ParseWeight(CellOf(header, line, "weight")),
            Strip(Str(CellOf(header, line, "level"))),
            Strip(Str(CellOf(header, line, "position"))),
            Strip(Str(CellOf(header, line, "classification"))),
            Strip(Str(CellOf(header, line, "role"))))

RECURSIVE EntriesOf(_, _)
\* the loop over df.iterrows(): an entry is kept when its name is not empty
EntriesOf(header, lines) ==
    IF lines = <<>> THEN <<>>
    ELSE LET entry == EntryOf(header, Head(lines))
         IN  (IF entry.name # "" THEN <<entry>> ELSE <<>>)
             \o EntriesOf(header, Tail(lines))

\* a file is no bytes at all, bytes read_csv cannot read, or a table
import_roster_from_csv_bytes(file) ==
    IF file.kind = "empty" THEN <<>>
    ELSE IF file.kind = "unreadable" THEN <<>>
    ELSE EntriesOf(file.header, file.lines)

Table(header, lines) == [kind |-> "table", header |-> header, lines |-> lines]

FullHeader == <<"name", "weight", "level", "position", "classification", "role">>

\* a crew of eleven, all for the Bow side
CrewFile ==
    Table(FullHeader,
          << <<"C1",  "80", "A", "Bow", "Bravo", "Pacer">>,
             <<"C2",  "70", "A", "Bow", "Alpha", "Pacer">>,
             <<"C3",  "75", "B", "Bow", "Bravo", "Pacer">>,
             <<"C4",  "90", "A", "Bow", "Bravo", "Engine">>,
             <<"C5",  "85", "B", "Bow", "Bravo", "Engine">>,
             <<"C6",  "85", "B", "Bow", "Alpha", "Engine">>,
             <<"C7",  "60", "C", "Bow", "Alpha", "Engine">>,
             <<"C8",  "",   "D", "Bow", "Alpha", "Engine">>,
             <<"C9",  "80", "A", "Bow", "Bravo", "Rocket">>,
             <<"C10", "70", "B", "Bow", "Alpha", "Rocket">>,
             <<"C11", "65", "C", "Bow", "Alpha", "Rocket">> >>)

\* capitalised headers and no position column: four paddlers without preference
NoPrefFile ==
    Table(<<"Name", "Weight", "Role">>,
          << <<"N1", "80", "Engine">>,
             <<"N2", "70", "Pacer">>,
             <<"N3", "70", "Rocket">>,
             <<"N4", "60", "Engine">> >>)

\* six Bow paddlers, four of them without a weight
BlankWeightFile ==
    Table(<<"name", "weight", "position", "role">>,
          << <<"H1", "10", "Bow", "Engine">>,
             <<"H2", "",   "Bow", "Engine">>,
             <<"H3", "",   "Bow", "Engine">>,
             <<"H4", "",   "BOW", "Engine">>,
             <<"H5", "",   " Bow", "Engine">>,
             <<"H6", "10", "bow", "Rocket">> >>)

\* an empty name, a blank name, an unparsable weight, a negative weight,
\* a missing weight with a side that is neither Bow nor Stroke
MessyFile ==
    Table(FullHeader,
          << <<"",   "70",  "A", "Bow",     "Alpha", "Engine">>,
             <<"  ", "70",  "A", "Stroke",  "Alpha", "Engine">>,
             <<"M1", "abc", "B", "Stroke ", "Bravo", "Rocket">>,
             <<"M2", "-5",  "C", "",        "Alpha", "">>,
             <<"M3", "NA",  "D", "Left",    "Bravo", "pacer">> >>)

\* no name column: every row is dropped
NoNameFile ==
    Table(<<"weight", "position">>, << <<"70", "Bow">>, <<"80", "Stroke">> >>)

CsvFiles ==
    {[kind |-> "empty", header |-> <<>>, lines |-> <<>>],
     [kind |-> "unreadable", header |-> <<>>, lines |-> <<>>],
     CrewFile, NoPrefFile, BlankWeightFile, MessyFile, NoNameFile}

\* new_rows for each file of the catalogue (the parse of a file never changes)
Imported == [file \in CsvFiles |-> import_roster_from_csv_bytes(file)]

-----------------------------------------------------------------------------
(* Roster table: sort_roster *)

\* the entries of the "Sort roster by" box
sort_options ==
    <<"None", "Name (A→Z)", "Level (A→D)", "Level (D→A)",
      "Alpha/Bravo (Alpha first)", "Alpha/Bravo (Bravo first)",
      "Weight (Light→Heavy)", "Weight (Heavy→Light)">>

\* the names of the model in the order Python gives their lower-cased texts
NamesInOrder ==
    <<"", "A", "B", "C1", "C10", "C11", "C2", "C3", "C4", "C5", "C6", "C7", "C8",
      "C9", "H1", "H2", "H3", "H4", "H5", "H6", "M1", "M2", "M3", "N1", "N2", "N3",
      "N4", "nan", "P">>

\* (r.get('name') or '').lower() as a sort key: its place in that order
NameKey(name) == CHOOSE k \in DOMAIN NamesInOrder : NamesInOrder[k] = name

\* str.upper() on the levels the model uses
Upper(s) ==
    CASE s = "a" -> "A"
      [] s = "b" -> "B"
      [] s = "c" -> "C"
      [] s = "d" -> "D"
      [] OTHER -> s

\* order.get((r.get('level') or '').upper(), 99)
LevelKey(level) ==
    CASE Upper(level) = "A" -> 0
      [] Upper(level) = "B" -> 1
      [] Upper(level) = "C" -> 2
      [] Upper(level) = "D" -> 3
      [] OTHER -> 99

\* order.get((r.get('classification') or ''), 99)
ClassKey(classification) ==
    CASE classification = "Alpha" -> 0
      [] classification = "Bravo" -> 1
      [] OTHER -> 99

\* the key function of each method
SortKey(method, r) ==
    CASE method \in {"Name (A→Z)", "Name (Z→A)"} -> NameKey(r.name)
      [] method \in {"Weight (Light→Heavy)", "Weight (Heavy→Light)"} -> WeightOf(r)
      [] method \in {"Level (A→D)", "Level (D→A)"} -> LevelKey(r.level)
      [] method \in {"Alpha/Bravo (Alpha first)", "Alpha/Bravo (Bravo first)"} ->
             ClassKey(r.classification)

\* the methods sorted with reverse=True
Reversed(method) ==
    method \in {"Name (Z→A)", "Weight (Heavy→Light)", "Level (D→A)",
                "Alpha/Bravo (Bravo first)"}

RECURSIVE InsertByKey(_, _, _)
\* x placed behind every row that does not come after it
InsertByKey(x, sorted, method) ==
    IF sorted = <<>> THEN <<x>>
    ELSE IF (IF Reversed(method)
             THEN SortKey(method, Head(sorted)) >= SortKey(method, x)
             ELSE SortKey(method, Head(sorted)) <= SortKey(method, x))
         THEN <<Head(sorted)>> \o InsertByKey(x, Tail(sorted), method)
         ELSE <<x>> \o sorted

RECURSIVE SortedByKey(_, _)
\* sorted(rows, key=..., reverse=...): stable in both directions
SortedByKey(rows, method) ==
    IF rows = <<>> THEN <<>>
    ELSE InsertByKey(rows[Len(rows)],
                     SortedByKey(SubSeq(rows, 1, Len(rows) - 1), method), method)

\* a new list; the rows themselves in their order for "None" and for a method
\* the function does not know
sort_roster(rows, method) ==
    IF rows = <<>> THEN <<>>
    ELSE IF method \in {"Name (A→Z)", "Name (Z→A)", "Weight (Light→Heavy)",
                        "Weight (Heavy→Light)", "Level (A→D)", "Level (D→A)",
                        "Alpha/Bravo (Alpha first)", "Alpha/Bravo (Bravo first)"}
         THEN SortedByKey(rows, method)
         ELSE rows

\* the entries chosen in the explored sessions
SortChoices == {"None", "Weight (Heavy→Light)"}

-----------------------------------------------------------------------------
(* CSV export *)

\* no file saved from the Export button
NoDownload == [kind |-> "none", header |-> <<>>, lines |-> <<>>]

\* the text to_csv writes for a weight (a float)
FloatText(w) ==
    CASE w = 0 -> "0.0"
      [] w = 10 -> "10.0"
      [] w = 60 -> "60.0"
      [] w = 65 -> "65.0"
      [] w = 70 -> "70.0"
      [] w = 75 -> "75.0"
      [] w = 80 -> "80.0"
      [] w = 85 -> "85.0"
      [] w = 90 -> "90.0"
      [] w = 0 - 5 -> "-5.0"

\* the text to_csv writes for the field c of a row
CsvCell(r, c) == IF c = "weight" THEN FloatText(r[c]) ELSE r[c]

\* the columns of DataFrame(rows): the keys of the paddler dicts
PaddlerKeys == <<"name", "weight", "level", "position", "classification", "role">>

\* no bytes for no rows; else the columns of fieldnames the rows have, a line
\* per row
dicts_to_csv_bytes(rows, fieldnames) ==
    IF rows = <<>> THEN [kind |-> "empty", header |-> <<>>, lines |-> <<>>]
    ELSE LET cols == SelectSeq(fieldnames, LAMBDA c : \E j \in DOMAIN PaddlerKeys :
                                                          PaddlerKeys[j] = c)
         IN  [kind |-> "table", header |-> cols,
              lines |-> [k \in DOMAIN rows |->
                            [j \in DOMAIN cols |-> CsvCell(rows[k], cols[j])]]]

-----------------------------------------------------------------------------
(* Session state and the handlers *)

\* what a script run without "Assign Seating" shows: no seating block and no
\* warning
IdleView ==
    [ran |-> FALSE, bow_members |-> <<>>, stroke_members |-> <<>>, queue |-> <<>>,
     placed |-> 0, bow |-> <<>>, stroke |-> <<>>, notice |-> FALSE,
     metrics |-> NoMetrics, suggestions |-> <<>>, warning |-> ""]

NameWarning == "Please enter a name."
NoRowsWarning == "No valid rows found in uploaded CSV."

\* st.session_state.last_uploaded_file before the first import
None == "<None>"
\* uploaded.name: every file of the catalogue is uploaded under the name the
\* Export button gives its download
FileName == "dragon_roster.csv"

Indices(R) == [i \in 1..Len(R) |-> i]

\* the roster as a whole compared with the ten seats
OverflowNoticeWholeRoster(bow_members, stroke_members) ==
    Len(bow_members) + Len(stroke_members) > Seats

\* len(bow_members) > 10 or len(stroke_members) > 10
OverflowNotice(bow_members, stroke_members) ==
    Len(bow_members) > Seats \/ Len(stroke_members) > Seats

\* the seating block of one run: everything it computes from the roster
SeatingRun(R) ==
    LET all  == Indices(R)
        dist == distribute_others_by_weight(
                    SelectSeq(all, LAMBDA i : IsBowPref(R[i])),
                    SelectSeq(all, LAMBDA i : IsStrokePref(R[i])),
                    SelectSeq(all, LAMBDA i : IsNoPref(R[i])), R)
        bow    == build_side_with_roles(dist.bow, R)
        stroke == build_side_with_roles(dist.stroke, R)
        rows   == build_assign_rows(bow, stroke, R)
        metrics == compute_balance_metrics(rows)
    IN  [rows |-> rows,
         view |-> [ran |-> TRUE, bow_members |-> dist.bow, stroke_members |-> dist.stroke,
                   queue |-> <<>>, placed |-> 0, bow |-> bow, stroke |-> stroke,
                   notice |-> OverflowNotice(dist.bow, dist.stroke),
                   metrics |-> metrics,
                   suggestions |-> IF metrics = NoMetrics THEN <<>>
                                   ELSE Suggestions(rows, metrics),
                   warning |-> ""]]

\* assign_rows taken over from the stored assignment instead of starting empty
assign_seating_append(R, stored) ==
    [rows |-> stored \o SeatingRun(R).rows, view |-> SeatingRun(R).view]

\* the "Assign Seating" block as a function of the session state it starts from:
\* assign_rows starts empty and replaces the stored assignment
assign_seating(R, stored) == SeatingRun(R)

\* inputs of the Add Member form
\* (name, weight) as typed: two paddlers and a submission without a name
FormPeople == {<<"", 70>>, <<"A", 80>>, <<"B", 70>>}
FormLevels == {"A"}
FormPositions == {"Bow", "Stroke"}
FormClasses == {"Alpha"}
FormRoles == {"Pacer", "Engine", "Rocket"}
\* the submissions explored: A for Bow as Pacer or Rocket, B for either side as
\* Engine or Rocket, and one submission without a name
FormEntries ==
    {e \in FormPeople \X FormLevels \X FormPositions \X FormClasses \X FormRoles :
        \/ e[1][1] = "A" /\ e[3] = "Bow" /\ e[5] \in {"Pacer", "Rocket"}
        \/ e[1][1] = "B" /\ e[5] \in {"Engine", "Rocket"}
        \/ e[1][1] = "" /\ e[3] = "Bow" /\ e[5] = "Pacer"}

Init ==
    /\ members = <<>>
    /\ assignment = <<>>
    /\ last_uploaded_file = None
    /\ sort_choice = "None"
    /\ view = IdleView
    /\ downloaded = NoDownload

AddMember(name, weight, level, position, classification, role) ==
    /\ Len(members) < MaxAdd
    /\ members' = IF name = "" THEN members
                  ELSE Append(members, Paddler(name, weight, level, position, classification, role))
    /\ view' = [IdleView EXCEPT !.warning = IF name = "" THEN NameWarning ELSE ""]
    /\ UNCHANGED <<assignment, last_uploaded_file, sort_choice, downloaded>>

\* the roster replaced by the rows of the file
ImportRowsReplacing(new_rows) ==
    /\ members' = new_rows
    /\ last_uploaded_file' = IF new_rows # <<>> THEN FileName ELSE last_uploaded_file
    /\ view' = [IdleView EXCEPT !.warning = IF new_rows # <<>> THEN "" ELSE NoRowsWarning]
    /\ UNCHANGED <<assignment, sort_choice, downloaded>>

\* the import button's handler once new_rows is parsed
ImportRows(new_rows) ==
    /\ members' = IF new_rows # <<>> THEN members \o new_rows ELSE members
    /\ last_uploaded_file' = IF new_rows # <<>> THEN FileName ELSE last_uploaded_file
    /\ view' = [IdleView EXCEPT !.warning = IF new_rows # <<>> THEN "" ELSE NoRowsWarning]
    /\ UNCHANGED <<assignment, sort_choice, downloaded>>

ImportCSV(file) ==
    /\ Len(members) + Len(Imported[file]) <= MaxRoster
    /\ ImportRows(Imported[file])

\* the roster replaced by a sorted copy of itself
SelectSortInPlace(method) ==
    /\ method # sort_choice
    /\ sort_choice' = method
    /\ members' = sort_roster(members, method)
    /\ view' = IdleView
    /\ UNCHANGED <<assignment, last_uploaded_file, downloaded>>

\* another entry of "Sort roster by" chosen: the script runs with no button
\* pressed and shows sort_roster(dragon_members, sort_choice)
SelectSort(method) ==
    /\ method # sort_choice
    /\ sort_choice' = method
    /\ view' = IdleView
    /\ UNCHANGED <<members, assignment, last_uploaded_file, downloaded>>

\* the roster table of the page
displayed_rows == sort_roster(members, sort_choice)

\* the data of the Export button
roster_csv ==
    dicts_to_csv_bytes(displayed_rows,
        <<"name", "weight", "level", "position", "classification", "role">>)

\* the roster forgotten, the assignment left in place
ClearRosterKeepsAssignment ==
    /\ members' = <<>>
    /\ view' = IdleView
    /\ UNCHANGED <<assignment, last_uploaded_file, sort_choice, downloaded>>

ClearRoster ==
    /\ members' = <<>>
    /\ assignment' = <<>>
    /\ view' = IdleView
    /\ UNCHANGED <<last_uploaded_file, sort_choice, downloaded>>

AssignSeating ==
    /\ members # <<>>
    /\ \E run \in {assign_seating(members, assignment)} :
          /\ assignment' = run.rows
          /\ view' = run.view
    /\ UNCHANGED <<members, last_uploaded_file, sort_choice, downloaded>>

Next ==
    \/ \E e \in FormEntries : AddMember(e[1][1], e[1][2], e[2], e[3], e[4], e[5])
    \/ \E file \in CsvFiles : ImportCSV(file)
    \/ \E method \in SortChoices : SelectSort(method)
    \/ ClearRoster
    \/ AssignSeating

Spec == Init /\ [][Next]_vars

-----------------------------------------------------------------------------
(* The distribution pass, one placement at a time *)

DistWeights == {0 - 5, 0, 10, 80}
DistPositions == {"Bow", "Stroke", ""}
DistPaddlers ==
    {Paddler("P", w, "A", p, "Alpha", "Engine") : w \in DistWeights, p \in DistPositions}
DistRosters == UNION {[1..n -> DistPaddlers] : n \in 0..MaxDist}

\* the lists distribute_others_by_weight is called with, and its sorted loop list
DistInit ==
    \E R \in DistRosters :
        /\ members = R
        /\ assignment = <<>>
        /\ last_uploaded_file = None
        /\ sort_choice = "None"
        /\ downloaded = NoDownload
        /\ view = [IdleView EXCEPT
                     !.bow_members = SelectSeq(Indices(R), LAMBDA i : IsBowPref(R[i])),
                     !.stroke_members = SelectSeq(Indices(R), LAMBDA i : IsStrokePref(R[i])),
                     !.queue = SortedHeaviestFirst(
                                   SelectSeq(Indices(R), LAMBDA i : IsNoPref(R[i])), R)]

\* the totals taken once, before the loop
DistPlaceTotalsOnce ==
    /\ view.queue # <<>>
    /\ LET o == Head(view.queue)
           bow0 == SelectSeq(Indices(members), LAMBDA i : IsBowPref(members[i]))
           stroke0 == SelectSeq(Indices(members), LAMBDA i : IsStrokePref(members[i]))
           to_bow == total_w(bow0, members) <= total_w(stroke0, members)
       IN  view' = [view EXCEPT
                      !.bow_members = IF to_bow THEN Append(@, o) ELSE @,
                      !.stroke_members = IF to_bow THEN @ ELSE Append(@, o),
                      !.queue = Tail(view.queue), !.placed = o]
    /\ UNCHANGED <<members, assignment, last_uploaded_file, sort_choice, downloaded>>

\* one iteration of the loop
DistPlace ==
    /\ view.queue # <<>>
    /\ LET o == Head(view.queue)
           nxt == PlaceOne(view.bow_members, view.stroke_members, o, members)
       IN  view' = [view EXCEPT !.bow_members = nxt.bow, !.stroke_members = nxt.stroke,
                                !.queue = Tail(view.queue), !.placed = o]
    /\ UNCHANGED <<members, assignment, last_uploaded_file, sort_choice, downloaded>>

DistNext == DistPlace

SpecDist == DistInit /\ [][DistNext]_vars

-----------------------------------------------------------------------------
(* The seat packer on one side *)

RoleOrders ==
    {<<"Pacer", "Engine", "Rocket">>, <<"Pacer", "Rocket", "Engine">>,
     <<"Engine", "Pacer", "Rocket">>, <<"Engine", "Rocket", "Pacer">>,
     <<"Rocket", "Pacer", "Engine">>, <<"Rocket", "Engine", "Pacer">>}
Mixings == {"grouped", "interleaved"}
WeightPatterns == {"same", "rising", "falling", "zigzag"}

Repeat(x, n) == [i \in 1..n |-> x]

RECURSIVE Interleave(_, _)
\* the roles of order in turn, each as often as count says
Interleave(order, count) ==
    IF \A role \in DOMAIN count : count[role] = 0 THEN <<>>
    ELSE LET left == [role \in DOMAIN count |->
                        IF count[role] > 0 THEN count[role] - 1 ELSE 0]
         IN  SelectSeq(order, LAMBDA role : count[role] > 0) \o Interleave(order, left)

RolesOfSide(count, order, mixing) ==
    IF mixing = "grouped"
    THEN Repeat(order[1], count[order[1]]) \o Repeat(order[2], count[order[2]])
         \o Repeat(order[3], count[order[3]])
    ELSE Interleave(order, count)

WeightAt(pattern, i) ==
    CASE pattern = "same" -> 70
      [] pattern = "rising" -> 60 + i
      [] pattern = "falling" -> 90 - i
      [] pattern = "zigzag" -> 70 + 10 * (i % 2)

SideOf(count, order, mixing, pattern) ==
    LET roles == RolesOfSide(count, order, mixing)
    IN  [i \in 1..Len(roles) |->
            Paddler("P", WeightAt(pattern, i), "A", "Bow", "Alpha", roles[i])]

\* one side's member list: any number of Pacers, Engines and Rockets
PackInit ==
    \E p, e, r \in 0..MaxSide :
        /\ p + e + r <= MaxSide
        /\ \E order \in RoleOrders, mixing \in Mixings, pattern \in WeightPatterns :
              members = SideOf([Pacer |-> p, Engine |-> e, Rocket |-> r],
                               order, mixing, pattern)
        /\ assignment = <<>>
        /\ last_uploaded_file = None
        /\ sort_choice = "None"
        /\ view = IdleView
        /\ downloaded = NoDownload

\* build_side_with_roles(members)
Pack ==
    /\ ~view.ran
    /\ view' = [IdleView EXCEPT !.ran = TRUE,
                                !.bow_members = Indices(members),
                                !.bow = build_side_with_roles(Indices(members), members)]
    /\ UNCHANGED <<members, assignment, last_uploaded_file, sort_choice, downloaded>>

PackNext == Pack

SpecPack == PackInit /\ [][PackNext]_vars


-----------------------------------------------------------------------------
(* Export and import of what was exported *)

\* rosters of up to this many records are exported
MaxCsv == 3

\* records the roster can hold: two from the form, one from a file without the
\* level, position and classification columns, one from a file with a blank
\* position cell
RoundTripPaddlers ==
    {Paddler("A", 80, "A", "Bow", "Alpha", "Pacer"),
     Paddler("B", 70, "B", "Stroke", "Bravo", "Engine"),
     Paddler("N1", 80, "", "", "", "Engine"),
     Paddler("N2", 70, "C", "", "Alpha", "Rocket")}

RoundTripRosters == UNION {[1..n -> RoundTripPaddlers] : n \in 0..MaxCsv}

RoundTripInit ==
    /\ members \in RoundTripRosters
    /\ assignment = <<>>
    /\ last_uploaded_file = None
    /\ sort_choice \in Range(sort_options)
    /\ view = IdleView
    /\ downloaded = NoDownload

\* the Export button, enabled when there are bytes to save
ExportRosterCSV ==
    /\ downloaded = NoDownload
    /\ roster_csv.kind # "empty"
    /\ downloaded' = roster_csv
    /\ view' = IdleView
    /\ UNCHANGED <<members, assignment, last_uploaded_file, sort_choice>>

\* the saved file put into the uploader and imported, once
ImportDownloaded ==
    /\ downloaded # NoDownload
    /\ last_uploaded_file = None
    /\ ImportRows(import_roster_from_csv_bytes(downloaded))

RoundTripNext == ExportRosterCSV \/ ImportDownloaded

SpecRoundTrip == RoundTripInit /\ [][RoundTripNext]_vars

-----------------------------------------------------------------------------
(* Properties of Assign Seating.  While view.ran holds, the roster is the  *)
(* one the run read: every other handler resets the view.                  *)

SideRows(side) == SelectSeq(assignment, LAMBDA r : r.Side = side)

\* the rows the run stored for one side are its packed list, seat by seat
RowsOfSide(side, packed) ==
    SideRows(side) = [k \in 1..Len(packed) |-> SeatRow(k, side, members[packed[k]])]

\* C1: after Assign Seating a paddler who prefers Bow is on no Stroke list and
\* in no Stroke row, a paddler who prefers Stroke on no Bow list and in no Bow
\* row; the distribution of the paddlers without preference moves neither.
C1_PreferenceKept ==
    view.ran =>
        /\ RowsOfSide("Bow", view.bow)
        /\ RowsOfSide("Stroke", view.stroke)
        /\ \A i \in DOMAIN members :
              /\ Lower(members[i].position) = "bow" =>
                    i \notin Range(view.stroke_members) \cup Range(view.stroke)
              /\ Lower(members[i].position) = "stroke" =>
                    i \notin Range(view.bow_members) \cup Range(view.bow)

\* a run that seated a Bow paddler, a Stroke paddler and paddlers without
\* preference on both sides
C1_Witness ==
    /\ view.ran
    /\ \E i \in Range(view.bow) : Lower(members[i].position) = "bow"
    /\ \E i \in Range(view.stroke) : Lower(members[i].position) = "stroke"
    /\ \E i \in Range(view.bow) : Lower(members[i].position) \notin {"bow", "stroke"}
    /\ \E i \in Range(view.stroke) : Lower(members[i].position) \notin {"bow", "stroke"}

NoRepeat(seq) == \A j, k \in DOMAIN seq : seq[j] = seq[k] => j = k

\* C2: every roster record is in at most one row, each side gets exactly
\* min(10, n) rows for the n paddlers destined for it, and the paddlers beyond
\* the tenth of a side are in no row of either side.
C2_SeatedOnce ==
    view.ran =>
        /\ NoRepeat(view.bow \o view.stroke)
        /\ NoRepeat(view.bow_members \o view.stroke_members)
        /\ Range(view.bow_members) \cup Range(view.stroke_members) = DOMAIN members
        /\ Range(view.bow) \subseteq Range(view.bow_members)
        /\ Range(view.stroke) \subseteq Range(view.stroke_members)
        /\ Len(view.bow) = Min2(10, Len(view.bow_members))
        /\ Len(view.stroke) = Min2(10, Len(view.stroke_members))
        /\ Len(SideRows("Bow")) = Len(view.bow)
        /\ Len(SideRows("Stroke")) = Len(view.stroke)
        /\ Len(assignment) = Len(view.bow) + Len(view.stroke)

\* eleven paddlers for Bow: ten rows, one paddler dropped, Stroke seated as well
C2_Witness ==
    /\ view.ran
    /\ Len(view.bow_members) = 11
    /\ Len(SideRows("Bow")) = 10
    /\ Len(SideRows("Stroke")) = 1

\* C3: the seat numbers of the rows of one side are exactly 1..k, k <= 10 the
\* number of rows of that side, for Bow and for Stroke separately.
C3_SeatsContiguous ==
    \A side \in {"Bow", "Stroke"} :
        LET rows == SideRows(side)
        IN  /\ Len(rows) <= 10
            /\ NoRepeat([k \in DOMAIN rows |-> rows[k].Seat])
            /\ {rows[k].Seat : k \in DOMAIN rows} = 1..Len(rows)
            /\ view.ran => Len(rows) = Len(IF side = "Bow" THEN view.bow ELSE view.stroke)

\* sides of different sizes, the larger one beyond the front half
C3_Witness ==
    /\ Len(SideRows("Bow")) >= 6
    /\ Len(SideRows("Stroke")) >= 2
    /\ Len(SideRows("Stroke")) < Len(SideRows("Bow"))

\* C4: the notice is raised exactly when a paddler was left without a seat,
\* which is exactly when a side has more than ten members, and the run still
\* stores the ten rows of that side.
C4_OverflowReported ==
    view.ran =>
        /\ view.notice <=> Len(assignment) < Len(members)
        /\ view.notice <=> (Len(view.bow_members) > 10 \/ Len(view.stroke_members) > 10)
        /\ Len(view.bow_members) > 10 => Len(SideRows("Bow")) = 10
        /\ Len(view.stroke_members) > 10 => Len(SideRows("Stroke")) = 10

\* eleven Bow paddlers: ten Bow rows and the notice
C4_Witness ==
    /\ view.ran
    /\ view.notice
    /\ Len(members) = 11
    /\ \A i \in DOMAIN members : Lower(members[i].position) = "bow"
    /\ Len(assignment) = 10

NumberOfRole(role) == Cardinality({i \in DOMAIN members : members[i].role = role})

\* C5 (under SpecPack): the packer returns at most 10 paddlers; for a side of
\* twelve (of ten or more) with at least 2 Pacers seats 1 and 2 hold Pacers,
\* with at least 2 Rockets seats 9 and 10 hold Rockets.
C5_PackerFrontBack ==
    view.ran =>
        /\ Len(view.bow) <= 10
        /\ Len(members) >= 10 =>
              /\ Len(view.bow) = 10
              /\ NumberOfRole("Pacer") >= 2 =>
                    members[view.bow[1]].role = "Pacer" /\ members[view.bow[2]].role = "Pacer"
              /\ NumberOfRole("Rocket") >= 2 =>
                    members[view.bow[9]].role = "Rocket" /\ members[view.bow[10]].role = "Rocket"

\* twelve paddlers, three or more of every role, packed
C5_Witness ==
    /\ view.ran
    /\ Len(members) = 12
    /\ NumberOfRole("Pacer") >= 3
    /\ NumberOfRole("Engine") >= 3
    /\ NumberOfRole("Rocket") >= 3
    /\ members[1].role = "Engine"
    /\ Len(view.bow) = 10
    /\ members[view.bow[1]].role = "Pacer"
    /\ members[view.bow[10]].role = "Rocket"

RECURSIVE ListWeight(_)
\* the weights of the roster records a list refers to, added up
ListWeight(lst) ==
    IF lst = <<>> THEN 0 ELSE members[Head(lst)].weight + ListWeight(Tail(lst))

AbsDiff == Abs(ListWeight(view.bow_members) - ListWeight(view.stroke_members))

\* C6 as claimed (under SpecDist), already for paddlers who all have a
\* positive weight: after every placement the absolute difference of the two lists'
\* weights is at most the weight of the paddler just placed.
C6_DiffWithinLastPlaced ==
    /\ \A i \in DOMAIN members : members[i].weight > 0
    /\ view.placed # 0
    => AbsDiff <= members[view.placed].weight

\* C6 amended (under SpecDist): after every placement of a paddler of
\* non-negative weight the absolute difference is at most the larger of that
\* paddler's weight and the absolute difference before the placement.
C6_DiffWithinLastPlacedOrBefore ==
    [][Len(view'.queue) < Len(view.queue) /\ members[view'.placed].weight >= 0 =>
          AbsDiff' <= Max2(members[view'.placed].weight, AbsDiff)]_vars

\* a placement on the lighter side that leaves more than the placed paddler's
\* weight between the sides
C6_Witness ==
    /\ view.placed # 0
    /\ members[view.placed].weight > 0
    /\ AbsDiff > members[view.placed].weight
    /\ view.bow_members # <<>>
    /\ view.stroke_members # <<>>

\* C7: a run leaves the roster as it was, a second run in a row stores and
\* shows what the first did, and what a run stores is the rows of the sides
\* it packed and nothing of the assignment stored before.
C7_Idempotent ==
    [][view'.ran =>
          /\ members' = members
          /\ view.ran => assignment' = assignment /\ view' = view
          /\ assignment' = build_assign_rows(view'.bow, view'.stroke, members)]_vars

\* a run over a roster with two equally heavy paddlers without preference,
\* placed on different sides by their order in the roster
C7_Witness ==
    /\ view.ran
    /\ assignment # <<>>
    /\ \E i, j \in DOMAIN members :
          /\ i < j
          /\ members[i].weight = members[j].weight
          /\ Lower(members[i].position) \notin {"bow", "stroke"}
          /\ Lower(members[j].position) \notin {"bow", "stroke"}
          /\ i \in Range(view.bow)
          /\ j \in Range(view.stroke)

RECURSIVE RowWeightSum(_)
\* the weights of the stored rows with an index in I, added up
RowWeightSum(I) ==
    IF I = {} THEN 0
    ELSE LET i == CHOOSE k \in I : TRUE
         IN  assignment[i].Weight + RowWeightSum(I \ {i})

\* C8: left and right are the weights of the Bow and of the Stroke rows,
\* front and back those of the rows up to seat 5 and beyond it, total their
\* sum, diff_lr = left - right, diff_fb = front - back; hence
\* diff_lr + 2*right = left + right.
C8_Metrics ==
    view.ran =>
        LET m == view.metrics
            rows == DOMAIN assignment
        IN  /\ m.left = RowWeightSum({i \in rows : assignment[i].Side = "Bow"})
            /\ m.right = RowWeightSum({i \in rows : assignment[i].Side = "Stroke"})
            /\ m.front = RowWeightSum({i \in rows : assignment[i].Seat <= 5})
            /\ m.back = RowWeightSum({i \in rows : assignment[i].Seat > 5})
            /\ m.total = m.left + m.right
            /\ m.diff_lr = m.left - m.right
            /\ m.diff_fb = m.front - m.back
            /\ m.diff_lr + 2 * m.right = m.left + m.right

\* a side of six paddlers: five rows in the front, the sixth alone in the back
C8_Witness ==
    /\ view.ran
    /\ Len(SideRows("Bow")) = 6
    /\ Len(SideRows("Stroke")) < 6
    /\ view.metrics.back = SideRows("Bow")[6].Weight
    /\ view.metrics.back > 0
    /\ view.metrics.front > 0

\* s is a swap of a heaviest row of side heavy with a lightest row of side light
NamesSwap(s, heavy, light) ==
    /\ s.kind = "swap"
    /\ s.heavy_label = heavy
    /\ s.light_label = light
    /\ s.heavy_p \in Range(SideRows(heavy))
    /\ \A r \in Range(SideRows(heavy)) : r.Weight <= s.heavy_p.Weight
    /\ s.light_p \in Range(SideRows(light))
    /\ \A r \in Range(SideRows(light)) : r.Weight >= s.light_p.Weight

SwapSuggested ==
    \E k \in DOMAIN view.suggestions :
        IF view.metrics.diff_lr > 0
        THEN NamesSwap(view.suggestions[k], "Bow", "Stroke")
        ELSE NamesSwap(view.suggestions[k], "Stroke", "Bow")

\* C9 as claimed: whenever |diff_lr| > 5 the suggestions hold a swap of the
\* heaviest paddler of the heavier side with the lightest of the lighter side,
\* also when a side has no seated paddler.
C9_SwapWheneverImbalanced ==
    view.ran /\ Abs(view.metrics.diff_lr) > 5 => SwapSuggested

\* C9 amended: whenever |diff_lr| > 5 and both sides have a seated paddler the
\* suggestions hold that swap; with a side empty no swap is suggested.
C9_SwapWhenBothSidesSeated ==
    view.ran =>
        /\ /\ Abs(view.metrics.diff_lr) > 5
           /\ SideRows("Bow") # <<>>
           /\ SideRows("Stroke") # <<>>
           => SwapSuggested
        /\ SideRows("Bow") = <<>> \/ SideRows("Stroke") = <<>> =>
              \A k \in DOMAIN view.suggestions : view.suggestions[k].kind # "swap"

\* Stroke heavier by more than 5 kg, both sides seated with paddlers of
\* different weights, and the swap suggested
C9_Witness ==
    /\ view.ran
    /\ view.metrics.diff_lr < 0 - 5
    /\ Len(SideRows("Bow")) >= 2
    /\ Len(SideRows("Stroke")) >= 2
    /\ \E r, q \in Range(SideRows("Stroke")) : r.Weight # q.Weight
    /\ \E r, q \in Range(SideRows("Bow")) : r.Weight # q.Weight
    /\ SwapSuggested

\* C10: the "already close to balanced" message is among the suggestions
\* exactly when |diff_lr| <= 5 and |diff_fb| <= 5, and then it is the only one.
C10_BalancedIffWithinThresholds ==
    view.ran =>
        LET said == \E k \in DOMAIN view.suggestions :
                        view.suggestions[k].kind = "balanced"
        IN  /\ said <=> Abs(view.metrics.diff_lr) <= 5 /\ Abs(view.metrics.diff_fb) <= 5
            /\ said => Len(view.suggestions) = 1

\* the front/back suggestions of the run, by their place among the suggestions
FrontBackSuggested ==
    {k \in DOMAIN view.suggestions :
        view.suggestions[k].kind \in {"front_heavier", "back_heavier"}}

\* C11: a front/back suggestion is among the suggestions exactly when
\* |diff_fb| > 5; it says "move toward the back" when the front is heavier and
\* "move toward the front" when the back is heavier, it names no paddler, and
\* there is at most one.
C11_FrontBackSuggestion ==
    view.ran =>
        /\ FrontBackSuggested # {} <=> Abs(view.metrics.diff_fb) > 5
        /\ Cardinality(FrontBackSuggested) <= 1
        /\ \A k \in FrontBackSuggested :
              /\ view.suggestions[k].kind = "front_heavier" <=> view.metrics.diff_fb > 0
              /\ view.suggestions[k].kind = "back_heavier" <=> view.metrics.diff_fb < 0
              /\ DOMAIN view.suggestions[k] = {"kind"}

\* a run whose back half is heavier by more than 5 kg and which says so
C11_Witness ==
    /\ view.ran
    /\ view.metrics.diff_fb < 0 - 5
    /\ \E k \in DOMAIN view.suggestions : view.suggestions[k].kind = "back_heavier"

-----------------------------------------------------------------------------
(* Properties of the roster handlers *)

\* the text of a cell as it stands in the file, "" without the column
RawCell(header, line, key) ==
    IF \E j \in DOMAIN header : Lower(header[j]) = key
    THEN line[CHOOSE j \in DOMAIN header : Lower(header[j]) = key]
    ELSE ""

\* the records a step appended to the roster
Appended == SubSeq(members', Len(members) + 1, Len(members'))

\* C12: an import adds one record for every line of the file whose name cell
\* is not empty (blank or missing), in the order of the file and under that
\* name, and none for the other lines; the weight of a record is the number in
\* its weight cell, 0 when the cell is missing or is not a number.
C12_EmptyNameDropped ==
    [][\A f \in CsvFiles : f.kind = "table" /\ ImportCSV(f) =>
          LET named == SelectSeq(f.lines,
                           LAMBDA line : Strip(RawCell(f.header, line, "name")) # "")
          IN  /\ Len(Appended) = Len(named)
              /\ \A k \in DOMAIN Appended :
                    k <= Len(named) =>
                        /\ Appended[k].name = Strip(RawCell(f.header, named[k], "name"))
                        /\ Appended[k].weight =
                              (IF RawCell(f.header, named[k], "weight") \in NumberTexts
                               THEN NumberOf(RawCell(f.header, named[k], "weight"))
                               ELSE 0)]_vars

\* C13: every record of the roster has a weight that is not negative.
C13_WeightsNonNegative ==
    \A i \in DOMAIN members : members[i].weight >= 0

\* a file from which the import takes no row: no bytes, unreadable bytes, or
\* no line with a name
NoValidRow(f) ==
    \/ f.kind \in {"empty", "unreadable"}
    \/ \A k \in DOMAIN f.lines : Strip(RawCell(f.header, f.lines[k], "name")) = ""

\* C14: Add Member without a name and Import CSV of a file without a valid
\* row leave the roster and the stored assignment as they were and show a
\* warning, every step that shows a warning leaves them as they were, and a
\* step that makes the roster longer leaves the records it had where they
\* were and the stored assignment as it was.
C14_RejectedInputChangesNothing ==
    [][/\ view'.warning # "" => members' = members /\ assignment' = assignment
       /\ \A e \in FormEntries :
             e[1][1] = "" /\ AddMember(e[1][1], e[1][2], e[2], e[3], e[4], e[5]) =>
                 /\ view'.warning = NameWarning
                 /\ members' = members /\ assignment' = assignment
       /\ \A f \in CsvFiles :
             NoValidRow(f) /\ ImportCSV(f) =>
                 /\ view'.warning = NoRowsWarning
                 /\ members' = members /\ assignment' = assignment
       /\ Len(members') > Len(members) =>
             /\ SubSeq(members', 1, Len(members)) = members
             /\ assignment' = assignment]_vars

\* an import refused with its warning while a roster and a stored assignment
\* exist
C14_Witness ==
    /\ view.warning = NoRowsWarning
    /\ Len(members) >= 2
    /\ assignment # <<>>

\* C15: a step that takes records off the roster leaves the roster and the
\* stored assignment empty and the page without a seating block, as at the
\* start of the session; whenever the roster is empty the stored assignment is
\* empty too and no seating is shown.
C15_ClearEmptiesBoth ==
    /\ [](members = <<>> => assignment = <<>> /\ ~view.ran)
    /\ [][Len(members') < Len(members) \/ Len(assignment') < Len(assignment) =>
             \/ members' = <<>> /\ assignment' = <<>> /\ view' = IdleView
             \/ view'.ran]_vars

\* the roster cleared after an import
C15_Witness ==
    /\ members = <<>>
    /\ assignment = <<>>
    /\ last_uploaded_file # None
    /\ view = IdleView

\* C16: the roster [A 80 kg Bow Pacer, B 70 kg Stroke Engine] is seated as
\* two rows, A at Bow seat 1 and B at Stroke seat 1, with diff_lr = 10; a
\* paddler who is the only one of a side has seat 1 of that side.
C16_ScenarioAB ==
    view.ran =>
        /\ /\ Len(members) = 2
           /\ members[1] = Paddler("A", 80, members[1].level, "Bow",
                                   members[1].classification, "Pacer")
           /\ members[2] = Paddler("B", 70, members[2].level, "Stroke",
                                   members[2].classification, "Engine")
           => /\ assignment = <<SeatRow(1, "Bow", members[1]),
                                SeatRow(1, "Stroke", members[2])>>
              /\ view.metrics.diff_lr = 10
        /\ Len(view.bow_members) = 1 =>
              SideRows("Bow") = <<SeatRow(1, "Bow", members[view.bow_members[1]])>>
        /\ Len(view.stroke_members) = 1 =>
              SideRows("Stroke") = <<SeatRow(1, "Stroke", members[view.stroke_members[1]])>>

\* the scenario seated
C16_Witness ==
    /\ view.ran
    /\ Len(members) = 2
    /\ members[1].name = "A" /\ members[1].weight = 80
    /\ members[1].position = "Bow" /\ members[1].role = "Pacer"
    /\ members[2].name = "B" /\ members[2].weight = 70
    /\ members[2].position = "Stroke" /\ members[2].role = "Engine"
    /\ Len(assignment) = 2

\* C17 (under SpecRoundTrip): the import of an exported file appends records
\* equal to the exported rows, field for field and in their order, also for
\* records with an empty position; the export of the empty roster imports as
\* the empty list.
C17_RoundTrip ==
    /\ import_roster_from_csv_bytes(dicts_to_csv_bytes(<<>>, PaddlerKeys)) = <<>>
    /\ [][downloaded # NoDownload /\ downloaded' = downloaded =>
             Appended = sort_roster(members, sort_choice)]_vars

-----------------------------------------------------------------------------
(* Properties of the seat packer and of the distribution pass *)

\* the bucket of a member of the side
BucketOf(i) ==
    IF members[i].role = "Pacer" THEN "Pacer"
    ELSE IF members[i].role = "Rocket" THEN "Rocket" ELSE "Engine"

\* the heaviest of a set of members, the earliest in the list among equals
HeaviestOf(I) ==
    CHOOSE i \in I : \A j \in I :
        \/ members[j].weight < members[i].weight
        \/ members[j].weight = members[i].weight /\ i <= j

\* the priority list of a slot as claimed
ClaimedPriority(slot) ==
    IF slot \in {1, 2} THEN <<"Pacer", "Engine", "Rocket">>
    ELSE IF slot \in {9, 10} THEN <<"Rocket", "Engine", "Pacer">>
    ELSE <<"Engine", "Pacer", "Rocket">>

\* the order of filling as claimed
ClaimedOrder == <<1, 2, 10, 9, 3, 4, 5, 6, 7, 8>>

\* the pull of a slot from the members still unseated, 0 when none is left
ClaimedPull(slot, remaining) ==
    LET of(b) == {i \in remaining : BucketOf(i) = b}
        pr == ClaimedPriority(slot)
    IN  IF of(pr[1]) # {} THEN HeaviestOf(of(pr[1]))
        ELSE IF of(pr[2]) # {} THEN HeaviestOf(of(pr[2]))
        ELSE IF of(pr[3]) # {} THEN HeaviestOf(of(pr[3]))
        ELSE 0

RECURSIVE ClaimedSlots(_, _, _)
\* the slots after the pulls k, k+1, ... of the claimed order
ClaimedSlots(k, remaining, slots) ==
    IF k > 10 THEN slots
    ELSE LET got == ClaimedPull(ClaimedOrder[k], remaining)
         IN  ClaimedSlots(k + 1, remaining \ {got},
                          [slots EXCEPT ![ClaimedOrder[k]] = got])

\* the members seated before the k-th pull
SeatedBefore(k, slots) == {slots[ClaimedOrder[t]] : t \in 1..(k - 1)} \ {0}

\* C18 (under SpecPack): the packed side is what the pulls in the order 1, 2,
\* 10, 9, 3..8 give, each the heaviest (earliest among equals) of the first
\* non-empty bucket of its priority list, read from slot 1 to slot 10 without
\* the empty slots; seat 1 holds the heaviest Pacer if there is a Pacer; a
\* Rocket is in a middle slot only if every Engine and every Pacer was seated
\* before that slot was filled.
C18_PackerOrder ==
    view.ran =>
        LET slots == ClaimedSlots(1, DOMAIN members, [t \in 1..10 |-> 0])
            pacers == {i \in DOMAIN members : members[i].role = "Pacer"}
        IN  /\ view.bow = SelectSeq(slots, LAMBDA i : i # 0)
            /\ pacers # {} => view.bow[1] = HeaviestOf(pacers)
            /\ \A k \in 5..10 :
                  slots[ClaimedOrder[k]] # 0 /\ BucketOf(slots[ClaimedOrder[k]]) = "Rocket" =>
                      \A j \in DOMAIN members :
                          BucketOf(j) # "Rocket" => j \in SeatedBefore(k, slots)

\* a full side with a Rocket in a middle seat, Rockets of different weights
\* in the back, and two Pacers of the same weight in the front
C18_Witness ==
    /\ view.ran
    /\ Len(view.bow) = 10
    /\ \E k \in 3..8 : members[view.bow[k]].role = "Rocket"
    /\ members[view.bow[9]].role = "Rocket"
    /\ members[view.bow[10]].weight > members[view.bow[9]].weight
    /\ members[view.bow[1]].role = "Pacer"
    /\ members[view.bow[2]].role = "Pacer"
    /\ members[view.bow[1]].weight = members[view.bow[2]].weight
    /\ view.bow[1] < view.bow[2]

\* the paddlers without preference
NoPrefs == {i \in DOMAIN members : Lower(members[i].position) \notin {"bow", "stroke"}}

RECURSIVE WeightOfAll(_)
\* the weights of a set of roster records, added up
WeightOfAll(I) ==
    IF I = {} THEN 0
    ELSE LET i == CHOOSE k \in I : TRUE
         IN  members[i].weight + WeightOfAll(I \ {i})

\* the absolute difference of the two lists before the pass
AbsDiffBeforePass ==
    Abs(WeightOfAll({i \in DOMAIN members : Lower(members[i].position) = "bow"})
        - WeightOfAll({i \in DOMAIN members : Lower(members[i].position) = "stroke"}))

\* the weight of the heaviest paddler without preference
HeaviestNoPref ==
    members[CHOOSE i \in NoPrefs : \A j \in NoPrefs :
                members[j].weight <= members[i].weight].weight

\* how often a paddler is on the two lists
TimesListed(i) ==
    Cardinality({k \in DOMAIN view.bow_members : view.bow_members[k] = i})
    + Cardinality({k \in DOMAIN view.stroke_members : view.stroke_members[k] = i})

\* C19 (under SpecDist): every placement appends the paddler to the Bow list
\* when the Bow total, as it is then, is less than or equal to the Stroke
\* total and to the Stroke list otherwise; when no paddler without preference
\* has a negative weight the absolute difference after every placement is at most
\* max(absolute difference before the pass, weight of the heaviest of them);
\* a paddler without preference is on no list while it waits and on exactly
\* one list once placed.
C19_TieToBowAndBound ==
    /\ [](/\ view.placed # 0 /\ (\A i \in NoPrefs : members[i].weight >= 0) =>
               AbsDiff <= Max2(AbsDiffBeforePass, HeaviestNoPref)
          /\ \A i \in NoPrefs :
               TimesListed(i) = IF \E k \in DOMAIN view.queue : view.queue[k] = i
                                THEN 0 ELSE 1)
    /\ [][Len(view'.queue) < Len(view.queue) =>
             IF ListWeight(view.bow_members) <= ListWeight(view.stroke_members)
             THEN /\ view'.bow_members = Append(view.bow_members, Head(view.queue))
                  /\ view'.stroke_members = view.stroke_members
             ELSE /\ view'.bow_members = view.bow_members
                  /\ view'.stroke_members = Append(view.stroke_members, Head(view.queue))]_vars

\* a finished pass over three paddlers without preference, all of positive
\* weight: the first went to Bow on the tie of the empty lists, the Stroke
\* list got one too, and the lists are not level
C19_Witness ==
    /\ view.queue = <<>>
    /\ Len(members) = 3
    /\ NoPrefs = DOMAIN members
    /\ \A i \in DOMAIN members : members[i].weight > 0
    /\ view.bow_members # <<>>
    /\ view.stroke_members # <<>>
    /\ view.bow_members[1] = 1
    /\ AbsDiff > 0

-----------------------------------------------------------------------------
(* The stored assignment and the roster *)

\* the row shows the record: name, weight, level, classification and role
Snapshots(row, m) ==
    /\ row.Name = m.name
    /\ row.Weight = m.weight
    /\ row.Level = m.level
    /\ row.Classification = m.classification
    /\ row.Role = m.role

\* C20: every stored row shows a record that is in the roster, a stored row
\* implies a roster record, the stored assignment changes only in a step that
\* assigns or that clears, a step that lengthens the roster or changes the
\* sort choice leaves it as it was, and a change of the sort choice leaves
\* the roster, order included, as it was.
C20_AssignmentFollowsRoster ==
    /\ [](/\ \A k \in DOMAIN assignment :
               \E i \in DOMAIN members : Snapshots(assignment[k], members[i])
          /\ assignment # <<>> => members # <<>>)
    /\ [][/\ assignment' # assignment =>
               view'.ran \/ (members' = <<>> /\ assignment' = <<>>)
          /\ Len(members') > Len(members) => assignment' = assignment
          /\ sort_choice' # sort_choice =>
               members' = members /\ assignment' = assignment]_vars

\* a roster shown sorted, in another order than its own, under an assignment
\* stored before the roster grew
C20_Witness ==
    /\ sort_choice # "None"
    /\ displayed_rows # members
    /\ ~view.ran
    /\ assignment # <<>>
    /\ Len(members) > Len(assignment)
    /\ Len(members) <= 10

====
